---- MODULE Spec2Model ----
(***************************************************************************)
(* A model of package allowlist (openshift/cfssl): the host allowlist      *)
(* Basic, the network allowlist BasicNet, their stubs, their JSON and dump *)
(* forms, and the HTTP handlers that gate a request on an allowlist.       *)
(*                                                                         *)
(* Strings are sequences of one-character strings, addresses (net.IP) are  *)
(* sequences of bytes, so that formatting and parsing are computed and not *)
(* assumed to invert each other.                                           *)
(***************************************************************************)
EXTENDS Integers, Sequences, FiniteSets, TLC

(***************************************************************************)
(* Go's strings and strconv-like helpers, as the package uses them.        *)
(***************************************************************************)

Digits == <<"0", "1", "2", "3", "4", "5", "6", "7", "8", "9">>

HexDigits == Digits \o <<"a", "b", "c", "d", "e", "f">>

UpperHexDigits == Digits \o <<"A", "B", "C", "D", "E", "F">>

IsDigit(c) == \E k \in 1..10 : Digits[k] = c

IsHexDigit(c) == \E k \in 1..16 : HexDigits[k] = c \/ UpperHexDigits[k] = c

DigitVal(c) == (CHOOSE k \in 1..10 : Digits[k] = c) - 1

HexVal(c) == (CHOOSE k \in 1..16 : HexDigits[k] = c \/ UpperHexDigits[k] = c) - 1

\* strings.TrimSpace's white space, as far as the inputs here hold any.
IsSpace(c) == c \in {" ", "\t", "\n", "\r"}

RECURSIVE itoa(_)
itoa(n) ==
    IF n < 10 THEN <<Digits[n + 1]>>
    ELSE itoa(n \div 10) \o <<Digits[(n % 10) + 1]>>

RECURSIVE appendHex(_)
appendHex(n) ==
    IF n < 16 THEN <<HexDigits[n + 1]>>
    ELSE appendHex(n \div 16) \o <<HexDigits[(n % 16) + 1]>>

\* s[i:] and s[:i] of Go, i counted from 0.
From(s, i) == SubSeq(s, i + 1, Len(s))

Upto(s, i) == SubSeq(s, 1, i)

\* strings.IndexByte: the 0-based index of the first c in s, -1 if none.
IndexByte(s, c) ==
    IF \E i \in 1..Len(s) : s[i] = c
    THEN (CHOOSE i \in 1..Len(s) : s[i] = c /\ \A j \in 1..(i - 1) : s[j] # c) - 1
    ELSE -1

\* strings.LastIndexByte.
LastIndexByte(s, c) ==
    IF \E i \in 1..Len(s) : s[i] = c
    THEN (CHOOSE i \in 1..Len(s) : s[i] = c /\ \A j \in (i + 1)..Len(s) : s[j] # c) - 1
    ELSE -1

RECURSIVE Join(_, _)
Join(ss, sep) ==
    IF Len(ss) = 0 THEN <<>>
    ELSE IF Len(ss) = 1 THEN ss[1]
    ELSE ss[1] \o sep \o Join(Tail(ss), sep)

\* strings.Split(s, sep) for a one-character sep: always at least one field.
RECURSIVE Split(_, _)
Split(s, c) ==
    LET i == IndexByte(s, c)
    IN  IF i < 0 THEN <<s>>
        ELSE <<Upto(s, i)>> \o Split(From(s, i + 1), c)

RECURSIVE TrimLeft(_)
TrimLeft(s) == IF Len(s) > 0 /\ IsSpace(s[1]) THEN TrimLeft(Tail(s)) ELSE s

RECURSIVE TrimRight(_)
TrimRight(s) ==
    IF Len(s) > 0 /\ IsSpace(s[Len(s)]) THEN TrimRight(Upto(s, Len(s) - 1)) ELSE s

TrimSpace(s) == TrimRight(TrimLeft(s))

\* The order of sort.Strings: byte-wise lexicographic, by ASCII code.
CharCode(c) ==
    CASE c = "\n" -> 10
      [] c = " " -> 32
      [] c = "\"" -> 34
      [] c = "," -> 44
      [] c = "." -> 46
      [] c = "/" -> 47
      [] IsDigit(c) -> 48 + DigitVal(c)
      [] c = ":" -> 58
      [] c = "<" -> 60
      [] c = ">" -> 62
      [] c = "?" -> 63
      [] c \in {"A", "B", "C", "D", "E", "F"} -> 55 + HexVal(c)
      [] c = "[" -> 91
      [] c = "]" -> 93
      [] c \in {"a", "b", "c", "d", "e", "f"} -> 87 + HexVal(c)
      [] OTHER -> 120

RECURSIVE StrLess(_, _)
StrLess(a, b) ==
    IF Len(b) = 0 THEN FALSE
    ELSE IF Len(a) = 0 THEN TRUE
    ELSE IF a[1] # b[1] THEN CharCode(a[1]) < CharCode(b[1])
    ELSE StrLess(Tail(a), Tail(b))

(***************************************************************************)
(* Package net of the Go standard library, as far as the allowlists call   *)
(* it: net.IP is a sequence of bytes (<<>> is the nil IP), a *net.IPNet is *)
(* a record [IP, Mask, isNil].                                             *)
(***************************************************************************)

IPv4len == 4

IPv6len == 16

NilIP == <<>>

v4InV6Prefix == <<0, 0, 0, 0, 0, 0, 0, 0, 0, 0, 255, 255>>

\* net.IPv4(a, b, c, d): the 16-byte form of an IPv4 address.
IPv4(a, b, c, d) == v4InV6Prefix \o <<a, b, c, d>>

\* net.IP.To4: the 4-byte form of an IPv4 address, NilIP for any other.
To4(ip) ==
    IF Len(ip) = IPv4len THEN ip
    ELSE IF Len(ip) = IPv6len /\ Upto(ip, 12) = v4InV6Prefix THEN From(ip, 12)
    ELSE NilIP

\* The eight 16-bit groups of a 16-byte address.
Groups(p) == [k \in 1..8 |-> p[2 * k - 1] * 256 + p[2 * k]]

\* The number of zero groups of g from position k on.
RECURSIVE ZeroRun(_, _)
ZeroRun(g, k) == IF k <= 8 /\ g[k] = 0 THEN 1 + ZeroRun(g, k + 1) ELSE 0

RECURSIVE hexString(_)
hexString(b) ==
    IF Len(b) = 0 THEN <<>>
    ELSE <<HexDigits[(b[1] \div 16) + 1], HexDigits[(b[1] % 16) + 1]>> \o hexString(Tail(b))

\* net.IP.String: dotted decimal for an IPv4 address in either form, the
\* shortest colon-hexadecimal form (the first longest run of two or more
\* zero groups written "::") for any other 16-byte address.
IPString(ip) ==
    IF Len(ip) = 0 THEN <<"<", "n", "i", "l", ">">>
    ELSE IF Len(To4(ip)) = IPv4len
    THEN LET p4 == To4(ip)
         IN  Join(<<itoa(p4[1]), itoa(p4[2]), itoa(p4[3]), itoa(p4[4])>>, <<".">>)
    ELSE IF Len(ip) # IPv6len THEN <<"?">> \o hexString(ip)
    ELSE LET g == Groups(ip)
             best == CHOOSE k \in 1..8 :
                       \A j \in 1..8 : /\ ZeroRun(g, j) <= ZeroRun(g, k)
                                       /\ (j < k => ZeroRun(g, j) < ZeroRun(g, k))
             run == ZeroRun(g, best)
             hex(a, b) == Join([k \in 1..(b - a + 1) |-> appendHex(g[a + k - 1])], <<":">>)
         IN  IF run < 2 THEN hex(1, 8)
             ELSE hex(1, best - 1) \o <<":", ":">> \o hex(best + run, 8)

\* net's dtoi: the decimal number s starts with, [n, c, ok] with c the
\* number of characters read.
RECURSIVE dtoiLoop(_, _, _)
dtoiLoop(s, i, n) ==
    IF i < Len(s) /\ IsDigit(s[i + 1])
    THEN LET m == n * 10 + DigitVal(s[i + 1])
         IN  IF m >= 16777215 THEN [n |-> 16777215, c |-> i, ok |-> FALSE]
             ELSE dtoiLoop(s, i + 1, m)
    ELSE IF i = 0 THEN [n |-> 0, c |-> 0, ok |-> FALSE]
    ELSE [n |-> n, c |-> i, ok |-> TRUE]

dtoi(s) == dtoiLoop(s, 0, 0)

\* net's xtoi: the same for hexadecimal.
RECURSIVE xtoiLoop(_, _, _)
xtoiLoop(s, i, n) ==
    IF i < Len(s) /\ IsHexDigit(s[i + 1])
    THEN LET m == n * 16 + HexVal(s[i + 1])
         IN  IF m >= 16777215 THEN [n |-> 0, c |-> i, ok |-> FALSE]
             ELSE xtoiLoop(s, i + 1, m)
    ELSE IF i = 0 THEN [n |-> 0, c |-> i, ok |-> FALSE]
    ELSE [n |-> n, c |-> i, ok |-> TRUE]

xtoi(s) == xtoiLoop(s, 0, 0)

\* net's parseIPv4: four decimal fields 0..255 without leading zeros; the
\* result is the 16-byte form, NilIP when s is no such address.
RECURSIVE parseIPv4Loop(_, _, _)
parseIPv4Loop(s, i, p) ==
    IF i = IPv4len
    THEN IF Len(s) # 0 THEN NilIP ELSE IPv4(p[1], p[2], p[3], p[4])
    ELSE IF Len(s) = 0 THEN NilIP
    ELSE IF i > 0 /\ s[1] # "." THEN NilIP
    ELSE LET t == IF i > 0 THEN Tail(s) ELSE s
             d == dtoi(t)
         IN  IF ~d.ok \/ d.n > 255 THEN NilIP
             ELSE IF d.c > 1 /\ t[1] = "0" THEN NilIP
             ELSE parseIPv4Loop(From(t, d.c), i + 1, Append(p, d.n))

parseIPv4(s) == parseIPv4Loop(s, 0, <<>>)

\* The expansion of "::" at byte ellipsis of the i bytes parsed so far.
ExpandEllipsis(ip, i, ellipsis) ==
    Upto(ip, ellipsis) \o [k \in 1..(IPv6len - i) |-> 0] \o From(ip, ellipsis)

\* net's parseIPv6 (no zone): hexadecimal groups, at most one "::", an
\* optional dotted IPv4 tail. ip holds the i bytes parsed, ellipsis the
\* byte where "::" stood, -1 if none yet.
RECURSIVE parseIPv6Loop(_, _, _, _)
parseIPv6Loop(s, i, ellipsis, ip) ==
    LET finish(rest, n, bytes) ==
            IF Len(rest) # 0 THEN NilIP
            ELSE IF n < IPv6len
            THEN IF ellipsis < 0 THEN NilIP ELSE ExpandEllipsis(bytes, n, ellipsis)
            ELSE IF ellipsis >= 0 THEN NilIP
            ELSE bytes
    IN  IF i >= IPv6len THEN finish(s, i, ip)
        ELSE LET x == xtoi(s)
             IN  IF ~x.ok \/ x.n > 65535 THEN NilIP
                 ELSE IF x.c < Len(s) /\ s[x.c + 1] = "."
                 THEN IF ellipsis < 0 /\ i # IPv6len - IPv4len THEN NilIP
                      ELSE IF i + IPv4len > IPv6len THEN NilIP
                      ELSE LET ip4 == parseIPv4(s)
                           IN  IF ip4 = NilIP THEN NilIP
                               ELSE finish(<<>>, i + IPv4len, ip \o From(ip4, 12))
                 ELSE LET ip2 == ip \o <<x.n \div 256, x.n % 256>>
                          s2 == From(s, x.c)
                      IN  IF Len(s2) = 0 THEN finish(s2, i + 2, ip2)
                          ELSE IF s2[1] # ":" \/ Len(s2) = 1 THEN NilIP
                          ELSE IF s2[2] = ":"
                          THEN IF ellipsis >= 0 THEN NilIP
                               ELSE IF Len(s2) = 2
                               THEN IF i + 2 < IPv6len
                                    THEN ExpandEllipsis(ip2, i + 2, i + 2)
                                    ELSE NilIP
                               ELSE parseIPv6Loop(From(s2, 2), i + 2, i + 2, ip2)
                          ELSE parseIPv6Loop(Tail(s2), i + 2, ellipsis, ip2)

parseIPv6(s) ==
    IF Len(s) >= 2 /\ s[1] = ":" /\ s[2] = ":"
    THEN IF Len(s) = 2 THEN [k \in 1..IPv6len |-> 0]
         ELSE parseIPv6Loop(From(s, 2), 0, 0, <<>>)
    ELSE parseIPv6Loop(s, 0, -1, <<>>)

\* net.ParseIP: the first "." or ":" decides the form; always 16 bytes.
ParseIP(s) ==
    LET dot == IndexByte(s, ".")
        colon == IndexByte(s, ":")
    IN  IF dot < 0 /\ colon < 0 THEN NilIP
        ELSE IF colon < 0 \/ (dot >= 0 /\ dot < colon) THEN parseIPv4(s)
        ELSE parseIPv6(s)

\* a & b on bytes.
RECURSIVE BitAnd(_, _)
BitAnd(a, b) ==
    IF a = 0 \/ b = 0 THEN 0
    ELSE (a % 2) * (b % 2) + 2 * BitAnd(a \div 2, b \div 2)

\* The nil *net.IPNet.
NilNet == [isNil |-> TRUE, IP |-> NilIP, Mask |-> <<>>]

IPNet(ip, mask) == [isNil |-> FALSE, IP |-> ip, Mask |-> mask]

\* net.CIDRMask(ones, bits): ones 1-bits followed by 0-bits, bits/8 bytes.
CIDRMask(ones, bits) ==
    [k \in 1..(bits \div 8) |->
        IF ones >= 8 * k THEN 255
        ELSE IF ones <= 8 * (k - 1) THEN 0
        ELSE 256 - 2 ^ (8 * k - ones)]

\* The number of leading 1-bits of byte b.
RECURSIVE LeadingOnes(_, _)
LeadingOnes(b, bit) ==
    IF bit >= 1 /\ b >= bit THEN 1 + LeadingOnes(b - bit, bit \div 2) ELSE 0

\* net's simpleMaskLength: the prefix length of a mask of 1-bits followed
\* by 0-bits, -1 for any other mask.
RECURSIVE simpleMaskLength(_)
simpleMaskLength(mask) ==
    IF Len(mask) = 0 THEN 0
    ELSE IF mask[1] = 255
    THEN LET rest == simpleMaskLength(Tail(mask))
         IN  IF rest < 0 THEN -1 ELSE 8 + rest
    ELSE LET n == LeadingOnes(mask[1], 128)
         IN  IF mask[1] # 256 - 2 ^ (8 - n) THEN -1
             ELSE IF \E k \in 2..Len(mask) : mask[k] # 0 THEN -1
             ELSE n

\* net's networkNumberAndMask: the address and mask of n at one length,
\* both <<>> (nil) when they do not fit together.
networkNumberAndMask(n) ==
    LET ip4 == To4(n.IP)
        ip == IF ip4 # NilIP THEN ip4 ELSE n.IP
        none == [ip |-> NilIP, m |-> <<>>]
    IN  IF ip4 = NilIP /\ Len(n.IP) # IPv6len THEN none
        ELSE IF Len(n.Mask) = IPv4len
        THEN IF Len(ip) # IPv4len THEN none ELSE [ip |-> ip, m |-> n.Mask]
        ELSE IF Len(n.Mask) = IPv6len
        THEN [ip |-> ip, m |-> IF Len(ip) = IPv4len THEN From(n.Mask, 12) ELSE n.Mask]
        ELSE none

\* (*net.IPNet).String: "<nil>" for the nil pointer and for a network whose
\* address and mask do not fit, else address "/" prefix length (the mask
\* in hexadecimal when it is no prefix).
IPNetString(n) ==
    IF n.isNil THEN <<"<", "n", "i", "l", ">">>
    ELSE LET nm == networkNumberAndMask(n)
             l == simpleMaskLength(nm.m)
         IN  IF nm.ip = NilIP \/ nm.m = <<>> THEN <<"<", "n", "i", "l", ">">>
             ELSE IF l = -1 THEN IPString(nm.ip) \o <<"/">> \o hexString(nm.m)
             ELSE IPString(nm.ip) \o <<"/">> \o itoa(l)

\* (*net.IPNet).Contains for a non-nil receiver.
Contains(n, ip) ==
    LET nm == networkNumberAndMask(n)
        x == IF To4(ip) # NilIP THEN To4(ip) ELSE ip
    IN  /\ Len(x) = Len(nm.ip)
        /\ \A i \in 1..Len(x) : BitAnd(nm.ip[i], nm.m[i]) = BitAnd(x[i], nm.m[i])

\* net.IP.Mask.
IPMask(ip, mask) ==
    LET m == IF Len(mask) = IPv6len /\ Len(ip) = IPv4len
                  /\ \A k \in 1..12 : mask[k] = 255
             THEN From(mask, 12) ELSE mask
        p == IF Len(m) = IPv4len /\ Len(ip) = IPv6len /\ Upto(ip, 12) = v4InV6Prefix
             THEN From(ip, 12) ELSE ip
    IN  IF Len(p) # Len(m) THEN NilIP
        ELSE [k \in 1..Len(p) |-> BitAnd(p[k], m[k])]

\* net.ParseCIDR: [err, net]; the network holds the masked address, 4
\* bytes for an IPv4 network and 16 for an IPv6 one.
ParseCIDR(s) ==
    LET i == IndexByte(s, "/")
        addr == Upto(s, i)
        mask == From(s, i + 1)
        ip4 == parseIPv4(addr)
        iplen == IF ip4 # NilIP THEN IPv4len ELSE IPv6len
        ip == IF ip4 # NilIP THEN ip4 ELSE parseIPv6(addr)
        d == dtoi(mask)
        fail == [err |-> TRUE, net |-> NilNet]
    IN  IF i < 0 THEN fail
        ELSE IF ip = NilIP \/ ~d.ok \/ d.c # Len(mask) \/ d.n > 8 * iplen THEN fail
        ELSE LET m == CIDRMask(d.n, 8 * iplen)
             IN  [err |-> FALSE, net |-> IPNet(IPMask(ip, m), m)]

(***************************************************************************)
(* The state.                                                              *)
(*                                                                         *)
(* basic[w] and basicNet[w] are the Basic and BasicNet values w names: the *)
(* list "wl" made by the constructor, and "tgt", a zero value that only    *)
(* UnmarshalJSON may be called on. A lock is NilLock (a nil *sync.Mutex),  *)
(* Unlocked, or the number of the thread that holds it. A Basic's          *)
(* allowlist is the set of its map's keys (every stored value is true),    *)
(* isNil telling the nil map from the empty one; a BasicNet's allowlist is *)
(* the sequence of its slice's elements.                                   *)
(*                                                                         *)
(* th[t] is the frame of thread t: pc is "idle" or the source line ("L66") *)
(* of the statement the thread executes next, op to err are the call it is *)
(* in, or has last returned from, with its arguments and results, the rest *)
(* are the call's local variables. out, kind and snap hold the bytes the   *)
(* thread's last serialization returned, and the entries it read for them; *)
(* in a BasicNet.Remove snap is the slice its loop ranged over.            *)
(*                                                                         *)
(* panicked is "no" or the run-time panic that ended the process.          *)
(***************************************************************************)
VARIABLES basic, basicNet, th, panicked, handler, served

vars == <<basic, basicNet, th, panicked, handler, served>>

\* The number of threads that call the lists concurrently.
NumThreads == 2

Threads == 1..NumThreads

Lists == {"wl", "tgt"}

NilLock == -1

Unlocked == 0

\* NewBasic, and the zero value Basic{}.
NewBasic == [lock |-> Unlocked, allowlist |-> {}, isNil |-> FALSE]

ZeroBasic == [lock |-> NilLock, allowlist |-> {}, isNil |-> TRUE]

\* NewBasicNet (its slice is nil: no elements), and the zero value.
NewBasicNet == [lock |-> Unlocked, allowlist |-> <<>>]

ZeroBasicNet == [lock |-> NilLock, allowlist |-> <<>>]

IdleFrame ==
    [pc |-> "idle", op |-> "none", w |-> "wl", ip |-> NilIP, net |-> NilNet,
     in |-> <<>>, ret |-> FALSE, err |-> "nil",
     m |-> {}, sl |-> <<>>, toks |-> <<>>, n |-> 0, i |-> 0, ss |-> <<>>,
     out |-> <<>>, kind |-> "none", snap |-> {}]

\* The frame of a thread entering op: the locals cleared, and the last
\* serialization forgotten.
Enter(f, op, w) == [IdleFrame EXCEPT !.op = op, !.w = w]

\* The same for a call that reads the bytes in back: the thread's last
\* serialization is kept when in is what it returned.
EnterRead(f, op, w, in) ==
    IF f.kind # "none" /\ in = f.out
    THEN [Enter(f, op, w) EXCEPT !.in = in, !.out = f.out, !.kind = f.kind, !.snap = f.snap]
    ELSE [Enter(f, op, w) EXCEPT !.in = in]

\* The frame of a thread returning: the locals cleared, the results kept.
Return(f) ==
    [f EXCEPT !.pc = "idle", !.m = {}, !.sl = <<>>, !.toks = <<>>, !.n = 0, !.i = 0,
              !.ss = <<>>]

\* Where thread t is; a panic ends the process, and every thread with it.
PC(t) == IF panicked = "no" THEN th[t].pc ELSE "crashed"

\* The bytes the last serialization of thread t returned, if any.
LastOut(t) == IF th[t].kind = "none" THEN {} ELSE {th[t].out}

\* A mutex that excludes nobody.
CanLockAlways(l) == TRUE

\* sync.Mutex.Lock blocks until the mutex is unlocked.
CanLock(l) == l.lock = Unlocked

\* A list a constructor returned, or UnmarshalJSON gave a lock.
Constructed(l) == l.lock # NilLock

(***************************************************************************)
(* The host allowlist Basic.                                               *)
(***************************************************************************)

\* A check that passes every length.
validIPAnyLength(ip) == TRUE

\* func validIP(ip net.IP) bool
validIP(ip) == Len(ip) = IPv4len \/ Len(ip) = IPv6len

\* A key that tells the 4-byte from the 16-byte form of an address.
BasicKeyBytes(ip) == hexString(ip)

\* The map key of an address: ip.String().
BasicKey(ip) == IPString(ip)

\* wl.allowlist[key] of a map: false for a missing key and for the nil map.
MapGet(l, key) == key \in l.allowlist

\* What Permitted returns on list l when it runs alone.
Permits(l, ip) == validIP(ip) /\ MapGet(l, BasicKey(ip))

\* func (wl *Basic) Permitted(ip net.IP) bool
BasicPermitted(t, Ws, IPs) ==
    \/ /\ PC(t) = "idle"
       /\ \E w \in Ws, ip \in IPs :
            /\ Constructed(basic[w])
            /\ th' = [th EXCEPT ![t] =
                     IF ~validIP(ip)
                     THEN [Enter(@, "Permitted", w) EXCEPT !.ip = ip, !.ret = FALSE]
                     ELSE [Enter(@, "Permitted", w) EXCEPT !.ip = ip, !.pc = "L66"]]
       /\ UNCHANGED <<basic, basicNet, panicked, handler, served>>
    \/ /\ PC(t) = "L66"
       /\ CanLock(basic[th[t].w])
       /\ basic' = [basic EXCEPT ![th[t].w].lock = t]
       /\ th' = [th EXCEPT ![t].pc = "L67"]
       /\ UNCHANGED <<basicNet, panicked, handler, served>>
    \/ /\ PC(t) = "L67"
       /\ th' = [th EXCEPT ![t].ret = MapGet(basic[th[t].w], BasicKey(th[t].ip)),
                           ![t].pc = "L68"]
       /\ UNCHANGED <<basic, basicNet, panicked, handler, served>>
    \/ /\ PC(t) = "L68"
       /\ basic' = [basic EXCEPT ![th[t].w].lock = Unlocked]
       /\ th' = [th EXCEPT ![t] = Return(@)]
       /\ UNCHANGED <<basicNet, panicked, handler, served>>

\* wl.allowlist[key] = true: the map with key set, read (m) and written
\* back in two steps; a write to the nil map panics.
MapSet(m, key) == m \cup {key}

\* func (wl *Basic) Add(ip net.IP)
BasicAdd(t, Ws, IPs) ==
    \/ /\ PC(t) = "idle"
       /\ \E w \in Ws, ip \in IPs :
            /\ Constructed(basic[w])
            /\ th' = [th EXCEPT ![t] =
                     IF ~validIP(ip)
                     THEN [Enter(@, "Add", w) EXCEPT !.ip = ip]
                     ELSE [Enter(@, "Add", w) EXCEPT !.ip = ip, !.pc = "L78"]]
       /\ UNCHANGED <<basic, basicNet, panicked, handler, served>>
    \/ /\ PC(t) = "L78"
       /\ CanLock(basic[th[t].w])
       /\ basic' = [basic EXCEPT ![th[t].w].lock = t]
       /\ th' = [th EXCEPT ![t].pc = "L80"]
       /\ UNCHANGED <<basicNet, panicked, handler, served>>
    \/ /\ PC(t) = "L80"
       /\ IF basic[th[t].w].isNil
          THEN /\ panicked' = "assignment to entry in nil map"
               /\ basic' = [basic EXCEPT ![th[t].w].lock = Unlocked]
               /\ th' = [th EXCEPT ![t] = [Return(@) EXCEPT !.err = "panic"]]
          ELSE /\ th' = [th EXCEPT ![t].m = basic[th[t].w].allowlist, ![t].pc = "L80w"]
               /\ UNCHANGED <<basic, panicked>>
       /\ UNCHANGED <<basicNet, handler, served>>
    \/ /\ PC(t) = "L80w"
       /\ basic' = [basic EXCEPT ![th[t].w].allowlist = MapSet(th[t].m, BasicKey(th[t].ip))]
       /\ th' = [th EXCEPT ![t].pc = "L81"]
       /\ UNCHANGED <<basicNet, panicked, handler, served>>
    \/ /\ PC(t) = "L81"
       /\ basic' = [basic EXCEPT ![th[t].w].lock = Unlocked]
       /\ th' = [th EXCEPT ![t] = Return(@)]
       /\ UNCHANGED <<basicNet, panicked, handler, served>>

\* A delete that puts a missing key into the map.
MapDeleteToggles(m, key) == IF key \in m THEN m \ {key} ELSE m \cup {key}

\* A delete that leaves the key in the map.
MapDeleteKeepsKey(m, key) == m

\* delete(wl.allowlist, key): a no-op for a missing key and for the nil map.
MapDelete(m, key) == m \ {key}

\* func (wl *Basic) Remove(ip net.IP)
BasicRemove(t, Ws, IPs) ==
    \/ /\ PC(t) = "idle"
       /\ \E w \in Ws, ip \in IPs :
            /\ Constructed(basic[w])
            /\ th' = [th EXCEPT ![t] =
                     IF ~validIP(ip)
                     THEN [Enter(@, "Remove", w) EXCEPT !.ip = ip]
                     ELSE [Enter(@, "Remove", w) EXCEPT !.ip = ip, !.pc = "L89"]]
       /\ UNCHANGED <<basic, basicNet, panicked, handler, served>>
    \/ /\ PC(t) = "L89"
       /\ CanLock(basic[th[t].w])
       /\ basic' = [basic EXCEPT ![th[t].w].lock = t]
       /\ th' = [th EXCEPT ![t].pc = "L91"]
       /\ UNCHANGED <<basicNet, panicked, handler, served>>
    \/ /\ PC(t) = "L91"
       /\ th' = [th EXCEPT ![t].m = basic[th[t].w].allowlist, ![t].pc = "L91w"]
       /\ UNCHANGED <<basic, basicNet, panicked, handler, served>>
    \/ /\ PC(t) = "L91w"
       /\ basic' = [basic EXCEPT ![th[t].w].allowlist = MapDelete(th[t].m, BasicKey(th[t].ip))]
       /\ th' = [th EXCEPT ![t].pc = "L92"]
       /\ UNCHANGED <<basicNet, panicked, handler, served>>
    \/ /\ PC(t) = "L92"
       /\ basic' = [basic EXCEPT ![th[t].w].lock = Unlocked]
       /\ th' = [th EXCEPT ![t] = Return(@)]
       /\ UNCHANGED <<basicNet, panicked, handler, served>>

\* The orders a range over a map with key set S may visit the keys in.
Orders(S) ==
    {o \in [1..Cardinality(S) -> S] : \A i, j \in 1..Cardinality(S) : i # j => o[i] # o[j]}

\* The entries separated by semicolons.
MarshalBytesSemicolon(ss) == <<"\"">> \o Join(ss, <<";">>) \o <<"\"">>

\* The compact form of the entries ss: a JSON string, comma-separated.
MarshalBytes(ss) == <<"\"">> \o Join(ss, <<",">>) \o <<"\"">>

\* func (wl *Basic) MarshalJSON() ([]byte, error)
BasicMarshalJSON(t, Ws) ==
    \/ /\ PC(t) = "idle"
       /\ \E w \in Ws :
            /\ Constructed(basic[w])
            /\ th' = [th EXCEPT ![t] = [Enter(@, "MarshalJSON", w) EXCEPT !.pc = "L105"]]
       /\ UNCHANGED <<basic, basicNet, panicked, handler, served>>
    \/ /\ PC(t) = "L105"
       /\ CanLock(basic[th[t].w])
       /\ basic' = [basic EXCEPT ![th[t].w].lock = t]
       /\ th' = [th EXCEPT ![t].pc = "L108"]
       /\ UNCHANGED <<basicNet, panicked, handler, served>>
    \/ /\ PC(t) = "L108"
       /\ \E o \in Orders(basic[th[t].w].allowlist) :
            th' = [th EXCEPT ![t].ss = o, ![t].pc = "L113"]
       /\ UNCHANGED <<basic, basicNet, panicked, handler, served>>
    \/ /\ PC(t) = "L113"
       /\ basic' = [basic EXCEPT ![th[t].w].lock = Unlocked]
       /\ th' = [th EXCEPT ![t] =
                   [Return(@) EXCEPT !.out = MarshalBytes(th[t].ss), !.kind = "json",
                                     !.snap = {th[t].ss[k] : k \in 1..Len(th[t].ss)}]]
       /\ UNCHANGED <<basicNet, panicked, handler, served>>

\* The test UnmarshalJSON opens with, on a non-empty input: both ends are
\* quotes.
Quoted(in) == in[1] = "\"" /\ in[Len(in)] = "\""

\* The entries of the compact form in: what is between the quotes, trimmed
\* and split at the commas.
UnmarshalTokens(in) == Split(TrimSpace(SubSeq(in, 2, Len(in) - 1)), ",")

\* func (wl *Basic) UnmarshalJSON(in []byte) error
\* Until it returns, m is the map its make() replaced.
BasicUnmarshalJSON(t, Ws, Ins) ==
    \/ /\ PC(t) = "idle"
       /\ \E w \in Ws, in \in Ins \cup LastOut(t) :
            IF Len(in) = 0
            THEN /\ panicked' = "index out of range"
                 /\ th' = [th EXCEPT ![t] =
                             [EnterRead(@, "UnmarshalJSON", w, in) EXCEPT !.err = "panic"]]
            ELSE /\ th' = [th EXCEPT ![t] =
                             IF ~Quoted(in)
                             THEN [EnterRead(@, "UnmarshalJSON", w, in) EXCEPT
                                     !.err = "invalid allowlist"]
                             ELSE [EnterRead(@, "UnmarshalJSON", w, in) EXCEPT !.pc = "L123"]]
                 /\ UNCHANGED panicked
       /\ UNCHANGED <<basic, basicNet, handler, served>>
    \/ /\ PC(t) = "L123"
       /\ basic' = [basic EXCEPT ![th[t].w].lock =
                      IF @ = NilLock THEN Unlocked ELSE @]
       /\ th' = [th EXCEPT ![t].pc = "L127"]
       /\ UNCHANGED <<basicNet, panicked, handler, served>>
    \/ /\ PC(t) = "L127"
       /\ CanLock(basic[th[t].w])
       /\ basic' = [basic EXCEPT ![th[t].w].lock = t]
       /\ th' = [th EXCEPT ![t].pc = "L130"]
       /\ UNCHANGED <<basicNet, panicked, handler, served>>
    \/ /\ PC(t) = "L130"
       /\ IF Len(th[t].in) < 2
          THEN /\ panicked' = "slice bounds out of range"
               /\ basic' = [basic EXCEPT ![th[t].w].lock = Unlocked]
               /\ th' = [th EXCEPT ![t] = [Return(@) EXCEPT !.err = "panic"]]
          ELSE /\ basic' = [basic EXCEPT ![th[t].w].allowlist = {},
                                         ![th[t].w].isNil = FALSE]
               /\ th' = [th EXCEPT ![t].toks = UnmarshalTokens(th[t].in),
                                   ![t].m = basic[th[t].w].allowlist,
                                   ![t].i = 1, ![t].pc = "L134"]
               /\ UNCHANGED panicked
       /\ UNCHANGED <<basicNet, handler, served>>
    \/ /\ PC(t) = "L134"
       /\ LET f == th[t]
              addr == TrimSpace(f.toks[f.i])
          IN  IF f.i > Len(f.toks)
              THEN /\ th' = [th EXCEPT ![t].pc = "L149"]
                   /\ UNCHANGED basic
              ELSE IF addr = <<>>
              THEN /\ th' = [th EXCEPT ![t].i = f.i + 1]
                   /\ UNCHANGED basic
              ELSE IF ParseIP(addr) = NilIP
              THEN /\ basic' = [basic EXCEPT ![f.w].allowlist = {}, ![f.w].isNil = TRUE]
                   /\ th' = [th EXCEPT ![t].err = "invalid IP address", ![t].pc = "L149"]
              ELSE /\ basic' = [basic EXCEPT ![f.w].allowlist = MapSet(@, addr)]
                   /\ th' = [th EXCEPT ![t].i = f.i + 1]
       /\ UNCHANGED <<basicNet, panicked, handler, served>>
    \/ /\ PC(t) = "L149"
       /\ basic' = [basic EXCEPT ![th[t].w].lock = Unlocked]
       /\ th' = [th EXCEPT ![t] = Return(@)]
       /\ UNCHANGED <<basicNet, panicked, handler, served>>

\* sort.Strings of the strings of S.
SortStrings(S) ==
    CHOOSE o \in Orders(S) : \A i \in 1..(Cardinality(S) - 1) : StrLess(o[i], o[i + 1])

\* The slice addrs left as the range over the map filled it.
UnsortedAddrs(addrs) == addrs

\* sort.Strings(addrs), addrs being the keys in the order the range over the
\* map visited them.
SortedAddrs(addrs) == SortStrings({addrs[k] : k \in 1..Len(addrs)})

\* The dump form of the entries addrs: one per line.
DumpBytes(addrs) == Join(addrs, <<"\n">>)

\* func DumpBasic(wl *Basic) []byte
DumpBasic(t, Ws) ==
    \/ /\ PC(t) = "idle"
       /\ \E w \in Ws :
            /\ Constructed(basic[w])
            /\ th' = [th EXCEPT ![t] = [Enter(@, "DumpBasic", w) EXCEPT !.pc = "L154"]]
       /\ UNCHANGED <<basic, basicNet, panicked, handler, served>>
    \/ /\ PC(t) = "L154"
       /\ CanLock(basic[th[t].w])
       /\ basic' = [basic EXCEPT ![th[t].w].lock = t]
       /\ th' = [th EXCEPT ![t].pc = "L158"]
       /\ UNCHANGED <<basicNet, panicked, handler, served>>
    \/ /\ PC(t) = "L158"
       /\ \E o \in Orders(basic[th[t].w].allowlist) :
            th' = [th EXCEPT ![t].ss = SortedAddrs(o), ![t].pc = "L165"]
       /\ UNCHANGED <<basic, basicNet, panicked, handler, served>>
    \/ /\ PC(t) = "L165"
       /\ basic' = [basic EXCEPT ![th[t].w].lock = Unlocked]
       /\ th' = [th EXCEPT ![t] =
                   [Return(@) EXCEPT !.out = DumpBytes(th[t].ss), !.kind = "dump",
                                     !.snap = {th[t].ss[k] : k \in 1..Len(th[t].ss)}]]
       /\ UNCHANGED <<basicNet, panicked, handler, served>>

\* The loop of LoadBasic over the lines addrs, from line i on, m the keys
\* of the new list: [err, m].
RECURSIVE LoadLoop(_, _, _)
LoadLoop(addrs, i, m) ==
    IF i > Len(addrs) THEN [err |-> "nil", m |-> m]
    ELSE LET ip == ParseIP(addrs[i])
         IN  IF ip = NilIP THEN [err |-> "invalid address", m |-> {}]
             ELSE LoadLoop(addrs, i + 1, IF validIP(ip) THEN MapSet(m, BasicKey(ip)) ELSE m)

\* func LoadBasic(in []byte) (*Basic, error): the list it builds is its own
\* until it returns, so the call is one step; m holds the keys of the list
\* returned, err tells the nil list returned with an error.
LoadBasic(t, Ins) ==
    /\ PC(t) = "idle"
    /\ \E in \in Ins \cup LastOut(t) :
         LET r == LoadLoop(Split(in, "\n"), 1, NewBasic.allowlist)
         IN  th' = [th EXCEPT ![t] =
                      [EnterRead(@, "LoadBasic", "tgt", in) EXCEPT !.err = r.err, !.m = r.m]]
    /\ UNCHANGED <<basic, basicNet, panicked, handler, served>>

(***************************************************************************)
(* The network allowlist BasicNet.                                         *)
(***************************************************************************)

\* The longest slice the model lets Add grow.
MaxNets == 2

\* A loop that returns what its first element answers.
NetScanFirstOnly(sl, i, ip) ==
    IF i > Len(sl) THEN "false"
    ELSE IF sl[i].isNil THEN "panic"
    ELSE IF Contains(sl[i], ip) THEN "true"
    ELSE "false"

\* The loop of BasicNet.Permitted over the slice sl from element i on:
\* "true" at the first network that contains ip, "panic" at a nil element
\* before it (Contains reads through the pointer), "false" at the end.
RECURSIVE NetScan(_, _, _)
NetScan(sl, i, ip) ==
    IF i > Len(sl) THEN "false"
    ELSE IF sl[i].isNil THEN "panic"
    ELSE IF Contains(sl[i], ip) THEN "true"
    ELSE NetScan(sl, i + 1, ip)

\* What Permitted returns on the network list l when it runs alone, and
\* does not panic.
NetPermits(l, ip) == validIP(ip) /\ NetScan(l.allowlist, 1, ip) = "true"

\* func (wl *BasicNet) Permitted(ip net.IP) bool
BasicNetPermitted(t, Ws, IPs) ==
    \/ /\ PC(t) = "idle"
       /\ \E w \in Ws, ip \in IPs :
            /\ Constructed(basicNet[w])
            /\ th' = [th EXCEPT ![t] =
                     IF ~validIP(ip)
                     THEN [Enter(@, "NetPermitted", w) EXCEPT !.ip = ip, !.ret = FALSE]
                     ELSE [Enter(@, "NetPermitted", w) EXCEPT !.ip = ip, !.pc = "L255"]]
       /\ UNCHANGED <<basic, basicNet, panicked, handler, served>>
    \/ /\ PC(t) = "L255"
       /\ CanLock(basicNet[th[t].w])
       /\ basicNet' = [basicNet EXCEPT ![th[t].w].lock = t]
       /\ th' = [th EXCEPT ![t].pc = "L257"]
       /\ UNCHANGED <<basic, panicked, handler, served>>
    \/ /\ PC(t) = "L257"
       /\ LET r == NetScan(basicNet[th[t].w].allowlist, 1, th[t].ip)
          IN  IF r = "panic"
              THEN /\ panicked' = "nil pointer dereference"
                   /\ basicNet' = [basicNet EXCEPT ![th[t].w].lock = Unlocked]
                   /\ th' = [th EXCEPT ![t] = [Return(@) EXCEPT !.err = "panic"]]
              ELSE /\ th' = [th EXCEPT ![t].ret = (r = "true"), ![t].pc = "L263"]
                   /\ UNCHANGED <<basicNet, panicked>>
       /\ UNCHANGED <<basic, handler, served>>
    \/ /\ PC(t) = "L263"
       /\ basicNet' = [basicNet EXCEPT ![th[t].w].lock = Unlocked]
       /\ th' = [th EXCEPT ![t] = Return(@)]
       /\ UNCHANGED <<basic, panicked, handler, served>>

\* append(wl.allowlist, n), the slice read (sl) and written back in two
\* steps.
SliceAppend(sl, n) == Append(sl, n)

\* func (wl *BasicNet) Add(n *net.IPNet)
BasicNetAdd(t, Ws, Nets) ==
    \/ /\ PC(t) = "idle"
       /\ \E w \in Ws, n \in Nets :
            /\ Constructed(basicNet[w])
            /\ Len(basicNet[w].allowlist) < MaxNets
            /\ th' = [th EXCEPT ![t] =
                     IF n.isNil
                     THEN [Enter(@, "NetAdd", w) EXCEPT !.net = n]
                     ELSE [Enter(@, "NetAdd", w) EXCEPT !.net = n, !.pc = "L274"]]
       /\ UNCHANGED <<basic, basicNet, panicked, handler, served>>
    \/ /\ PC(t) = "L274"
       /\ CanLock(basicNet[th[t].w])
       /\ basicNet' = [basicNet EXCEPT ![th[t].w].lock = t]
       /\ th' = [th EXCEPT ![t].pc = "L276"]
       /\ UNCHANGED <<basic, panicked, handler, served>>
    \/ /\ PC(t) = "L276"
       /\ th' = [th EXCEPT ![t].sl = basicNet[th[t].w].allowlist, ![t].pc = "L276w"]
       /\ UNCHANGED <<basic, basicNet, panicked, handler, served>>
    \/ /\ PC(t) = "L276w"
       /\ basicNet' = [basicNet EXCEPT ![th[t].w].allowlist = SliceAppend(th[t].sl, th[t].net)]
       /\ th' = [th EXCEPT ![t].pc = "L277"]
       /\ UNCHANGED <<basic, panicked, handler, served>>
    \/ /\ PC(t) = "L277"
       /\ basicNet' = [basicNet EXCEPT ![th[t].w].lock = Unlocked]
       /\ th' = [th EXCEPT ![t] = Return(@)]
       /\ UNCHANGED <<basic, panicked, handler, served>>

\* A loop without its break: the index of the last element whose String()
\* is that of n.
RECURSIVE RemoveIndexLast(_, _, _)
RemoveIndexLast(sl, i, n) ==
    IF i > Len(sl) THEN -1
    ELSE LET rest == RemoveIndexLast(sl, i + 1, n)
         IN  IF rest # -1 THEN rest
             ELSE IF IPNetString(sl[i]) = IPNetString(n) THEN i - 1
             ELSE -1

\* A loop that stops at the first element that contains the address of n.
RECURSIVE RemoveIndexByContains(_, _, _)
RemoveIndexByContains(sl, i, n) ==
    IF i > Len(sl) THEN -1
    ELSE IF ~sl[i].isNil /\ Contains(sl[i], n.IP) THEN i - 1
    ELSE RemoveIndexByContains(sl, i + 1, n)

\* The loop of BasicNet.Remove: the 0-based index of the first element of
\* sl, from element i on, whose String() is that of n; -1 if there is none.
RECURSIVE RemoveIndex(_, _, _)
RemoveIndex(sl, i, n) ==
    IF i > Len(sl) THEN -1
    ELSE IF IPNetString(sl[i]) = IPNetString(n) THEN i - 1
    ELSE RemoveIndex(sl, i + 1, n)

\* append(sl[:index], sl[index+1:]...) copies the tail down inside the
\* slice's array: before wl.allowlist is assigned the shorter slice, the
\* elements behind index have moved and the last one is there twice.
SliceShifted(sl, index) == Upto(sl, index) \o From(sl, index + 1) \o <<sl[Len(sl)]>>

SliceWithout(sl, index) == Upto(sl, index) \o From(sl, index + 1)

\* func (wl *BasicNet) Remove(n *net.IPNet)
BasicNetRemove(t, Ws, Nets) ==
    \/ /\ PC(t) = "idle"
       /\ \E w \in Ws, n \in Nets :
            /\ Constructed(basicNet[w])
            /\ th' = [th EXCEPT ![t] =
                     IF n.isNil
                     THEN [Enter(@, "NetRemove", w) EXCEPT !.net = n]
                     ELSE [Enter(@, "NetRemove", w) EXCEPT !.net = n, !.pc = "L286"]]
       /\ UNCHANGED <<basic, basicNet, panicked, handler, served>>
    \/ /\ PC(t) = "L286"
       /\ CanLock(basicNet[th[t].w])
       /\ basicNet' = [basicNet EXCEPT ![th[t].w].lock = t]
       /\ th' = [th EXCEPT ![t].pc = "L288"]
       /\ UNCHANGED <<basic, panicked, handler, served>>
    \/ /\ PC(t) = "L288"
       /\ LET index == RemoveIndex(basicNet[th[t].w].allowlist, 1, th[t].net)
          IN  th' = [th EXCEPT ![t].i = index, ![t].snap = basicNet[th[t].w].allowlist,
                               ![t].pc = IF index = -1 THEN "L300" ELSE "L299"]
       /\ UNCHANGED <<basic, basicNet, panicked, handler, served>>
    \/ /\ PC(t) = "L299"
       /\ basicNet' = [basicNet EXCEPT ![th[t].w].allowlist = SliceShifted(@, th[t].i)]
       /\ th' = [th EXCEPT ![t].sl = SliceWithout(basicNet[th[t].w].allowlist, th[t].i),
                           ![t].pc = "L299w"]
       /\ UNCHANGED <<basic, panicked, handler, served>>
    \/ /\ PC(t) = "L299w"
       /\ basicNet' = [basicNet EXCEPT ![th[t].w].allowlist = th[t].sl]
       /\ th' = [th EXCEPT ![t].pc = "L300"]
       /\ UNCHANGED <<basic, panicked, handler, served>>
    \/ /\ PC(t) = "L300"
       /\ basicNet' = [basicNet EXCEPT ![th[t].w].lock = Unlocked]
       /\ th' = [th EXCEPT ![t] = Return(@)]
       /\ UNCHANGED <<basic, panicked, handler, served>>

\* func (wl *BasicNet) MarshalJSON() ([]byte, error): it takes no lock.
\* The range reads the slice's length once (n); each turn of the loop
\* reads wl.allowlist[i] from the slice as it is then.
BasicNetMarshalJSON(t, Ws) ==
    \/ /\ PC(t) = "idle"
       /\ \E w \in Ws :
            /\ Constructed(basicNet[w])
            /\ th' = [th EXCEPT ![t] = [Enter(@, "NetMarshalJSON", w) EXCEPT !.pc = "L312"]]
       /\ UNCHANGED <<basic, basicNet, panicked, handler, served>>
    \/ /\ PC(t) = "L312"
       /\ th' = [th EXCEPT ![t].n = Len(basicNet[th[t].w].allowlist), ![t].i = 0,
                           ![t].pc = "L314"]
       /\ UNCHANGED <<basic, basicNet, panicked, handler, served>>
    \/ /\ PC(t) = "L314"
       /\ LET f == th[t]
              sl == basicNet[f.w].allowlist
          IN  IF f.i >= f.n
              THEN /\ th' = [th EXCEPT ![t] =
                               [Return(@) EXCEPT !.out = MarshalBytes(f.ss), !.kind = "netjson",
                                                 !.snap = f.sl]]
                   /\ UNCHANGED panicked
              ELSE IF f.i >= Len(sl)
              THEN /\ panicked' = "index out of range"
                   /\ th' = [th EXCEPT ![t] = [Return(@) EXCEPT !.err = "panic"]]
              ELSE /\ th' = [th EXCEPT ![t].ss = Append(f.ss, IPNetString(sl[f.i + 1])),
                                       ![t].sl = Append(f.sl, sl[f.i + 1]),
                                       ![t].i = f.i + 1]
                   /\ UNCHANGED panicked
       /\ UNCHANGED <<basic, basicNet, handler, served>>

\* func (wl *BasicNet) UnmarshalJSON(in []byte) error
BasicNetUnmarshalJSON(t, Ws, Ins) ==
    \/ /\ PC(t) = "idle"
       /\ \E w \in Ws, in \in Ins \cup LastOut(t) :
            IF Len(in) = 0
            THEN /\ panicked' = "index out of range"
                 /\ th' = [th EXCEPT ![t] =
                             [EnterRead(@, "NetUnmarshalJSON", w, in) EXCEPT !.err = "panic"]]
            ELSE /\ th' = [th EXCEPT ![t] =
                             IF ~Quoted(in)
                             THEN [EnterRead(@, "NetUnmarshalJSON", w, in) EXCEPT
                                     !.err = "invalid allowlist"]
                             ELSE [EnterRead(@, "NetUnmarshalJSON", w, in) EXCEPT
                                     !.pc = "L328"]]
                 /\ UNCHANGED panicked
       /\ UNCHANGED <<basic, basicNet, handler, served>>
    \/ /\ PC(t) = "L328"
       /\ basicNet' = [basicNet EXCEPT ![th[t].w].lock =
                         IF @ = NilLock THEN Unlocked ELSE @]
       /\ th' = [th EXCEPT ![t].pc = "L332"]
       /\ UNCHANGED <<basic, panicked, handler, served>>
    \/ /\ PC(t) = "L332"
       /\ CanLock(basicNet[th[t].w])
       /\ basicNet' = [basicNet EXCEPT ![th[t].w].lock = t]
       /\ th' = [th EXCEPT ![t].pc = "L336"]
       /\ UNCHANGED <<basic, panicked, handler, served>>
    \/ /\ PC(t) = "L336"
       /\ IF Len(th[t].in) < 2
          THEN /\ panicked' = "slice bounds out of range"
               /\ basicNet' = [basicNet EXCEPT ![th[t].w].lock = Unlocked]
               /\ th' = [th EXCEPT ![t] = [Return(@) EXCEPT !.err = "panic"]]
          ELSE /\ basicNet' = [basicNet EXCEPT ![th[t].w].allowlist =
                                 [k \in 1..Len(UnmarshalTokens(th[t].in)) |-> NilNet]]
               /\ th' = [th EXCEPT ![t].toks = UnmarshalTokens(th[t].in),
                                   ![t].sl = basicNet[th[t].w].allowlist,
                                   ![t].i = 1, ![t].pc = "L339"]
               /\ UNCHANGED panicked
       /\ UNCHANGED <<basic, handler, served>>
    \/ /\ PC(t) = "L339"
       /\ LET f == th[t]
              addr == TrimSpace(f.toks[f.i])
              r == ParseCIDR(addr)
          IN  IF f.i > Len(f.toks)
              THEN /\ th' = [th EXCEPT ![t].pc = "L352"]
                   /\ UNCHANGED basicNet
              ELSE IF addr = <<>>
              THEN /\ th' = [th EXCEPT ![t].i = f.i + 1]
                   /\ UNCHANGED basicNet
              ELSE IF r.err
              THEN /\ basicNet' = [basicNet EXCEPT ![f.w].allowlist = <<>>]
                   /\ th' = [th EXCEPT ![t].err = "invalid CIDR address", ![t].pc = "L352"]
              ELSE /\ basicNet' = [basicNet EXCEPT ![f.w].allowlist[f.i] = r.net]
                   /\ th' = [th EXCEPT ![t].i = f.i + 1]
       /\ UNCHANGED <<basic, panicked, handler, served>>
    \/ /\ PC(t) = "L352"
       /\ basicNet' = [basicNet EXCEPT ![th[t].w].lock = Unlocked]
       /\ th' = [th EXCEPT ![t] = Return(@)]
       /\ UNCHANGED <<basic, panicked, handler, served>>

(***************************************************************************)
(* The inputs the calls are given.                                         *)
(***************************************************************************)

\* The hosts 10.1.2.1 .. 10.1.2.MaxHost are the 4-byte addresses.
MaxHost == 2

Loopback6 == [k \in 1..IPv6len |-> IF k = IPv6len THEN 1 ELSE 0]

\* Valid addresses: 4-byte hosts, the 16-byte form of the first of them,
\* and an IPv6 address.
ValidIPs == {<<10, 1, 2, h>> : h \in 1..MaxHost} \cup {IPv4(10, 1, 2, 1), Loopback6}

\* Addresses of a wrong length: the nil IP and a 3-byte one.
InvalidIPs == {NilIP, <<10, 1, 2>>}

HostIPs == ValidIPs \cup InvalidIPs

\* Inputs of Basic.UnmarshalJSON next to the outputs of MarshalJSON: the
\* empty input, a lone quote, abc, an input that lacks its closing and one
\* that lacks its opening quote, "", two entries with a space, a
\* non-canonical entry, and an entry that is no address.
HostJSONInputs ==
    { <<>>,
      <<"\"">>,
      <<"a", "b", "c">>,
      <<"\"", ":", ":", "1">>,
      <<":", ":", "1", "\"">>,
      <<"\"", "\"">>,
      <<"\"", "1", "0", ".", "1", ".", "2", ".", "1", ",", " ", ":", ":", "1", "\"">>,
      <<"\"", "0", ":", "0", ":", "0", ":", "0", ":", "0", ":", "0", ":", "0", ":", "1", "\"">>,
      <<"\"", ":", ":", "1", ",", "a", "b", "c", "\"">> }

\* Inputs of LoadBasic next to the outputs of DumpBasic: the empty input,
\* two lines, a line that is no address, and a line with a newline after it.
HostDumpInputs ==
    { <<>>,
      <<"1", "0", ".", "1", ".", "2", ".", "1", "\n", ":", ":", "1">>,
      <<"a", "b", "c">>,
      <<":", ":", "1", "\n">> }

(***************************************************************************)
(* The host list called by one thread: every call returns before the next. *)
(***************************************************************************)

\* No handler constructed yet; allow and deny say whether the delegate is
\* non-nil, acl names the ACL the handler was given.
NoHandler == [type |-> "nil", allow |-> FALSE, deny |-> FALSE, acl |-> "nil", err |-> "nil"]

\* No request served yet; acl and deny are those of the handler that served,
\* calls are the delegates invoked and the error responses written, in
\* their order.
NoRequest ==
    [op |-> "none", acl |-> "nil", deny |-> FALSE, addr |-> <<>>, ip |-> NilIP,
     err |-> "nil", tested |-> FALSE, permitted |-> FALSE, calls |-> <<>>]

Init ==
    /\ basic = [w \in Lists |-> IF w = "wl" THEN NewBasic ELSE ZeroBasic]
    /\ basicNet = [w \in Lists |-> IF w = "wl" THEN NewBasicNet ELSE ZeroBasicNet]
    /\ th = [t \in Threads |-> IdleFrame]
    /\ panicked = "no"
    /\ handler = NoHandler
    /\ served = NoRequest

NextBasic ==
    \E t \in {1} :
        \/ BasicPermitted(t, Lists, HostIPs)
        \/ BasicAdd(t, Lists, HostIPs)
        \/ BasicRemove(t, Lists, HostIPs)
        \/ BasicMarshalJSON(t, Lists)
        \/ BasicUnmarshalJSON(t, Lists, HostJSONInputs)
        \/ DumpBasic(t, Lists)
        \/ LoadBasic(t, HostDumpInputs)

SpecBasic == Init /\ [][NextBasic]_vars

(***************************************************************************)
(* Properties of the host list.                                            *)
(***************************************************************************)

\* Thread t has returned from a call of op (and not by a panic).
Returned(t, op) == th[t].pc = "idle" /\ th[t].op = op /\ th[t].err # "panic"

\* The step at hand is one of thread t, inside a call of op on list w.
StepOf(t, op, w) == th'[t] # th[t] /\ th'[t].op = op /\ th'[t].w = w

\* The step at hand is one of a deserialization into list w.
Deserializes(w) == \E t \in Threads : StepOf(t, "UnmarshalJSON", w)

\* What C1 says of a returned call, in the state the call returns to.
AddRemoveEffect ==
    \A t \in Threads :
        /\ Returned(t, "Add") /\ validIP(th[t].ip) => Permits(basic[th[t].w], th[t].ip)
        /\ Returned(t, "Remove") /\ validIP(th[t].ip) => ~Permits(basic[th[t].w], th[t].ip)

\* Permitted(a) on list w turns false in the step at hand.
Revoked(w, a) ==
    basic'[w] # basic[w] /\ Permits(basic[w], a) /\ ~Permits(basic'[w], a)

\* Permitted(a) on list w turns true in the step at hand.
Granted(w, a) ==
    basic'[w] # basic[w] /\ ~Permits(basic[w], a) /\ Permits(basic'[w], a)

\* C1 as stated: on the host list, Permitted(a) is true once Add(a) has
\* returned and false once Remove(a) has returned, and it turns false only
\* in a step of Remove(a) or of a deserialization, true only in a step of
\* Add(a) or of a deserialization.
C1_AsStated ==
    [][/\ AddRemoveEffect'
       /\ \A w \in Lists, a \in ValidIPs :
            /\ Revoked(w, a)
                 => \/ Deserializes(w)
                    \/ \E t \in Threads : StepOf(t, "Remove", w) /\ th'[t].ip = a
            /\ Granted(w, a)
                 => \/ Deserializes(w)
                    \/ \E t \in Threads : StepOf(t, "Add", w) /\ th'[t].ip = a]_vars

\* C1 (amended): the same, where the Remove that ends and the Add that
\* starts Permitted(a) being true is one of any address whose canonical
\* string is that of a: the 4-byte and the 16-byte form of an IPv4 address
\* are one entry.
C1_AddThenRemove ==
    [][/\ AddRemoveEffect'
       /\ \A w \in Lists, a \in ValidIPs :
            /\ Revoked(w, a)
                 => \/ Deserializes(w)
                    \/ \E t \in Threads : /\ StepOf(t, "Remove", w)
                                          /\ IPString(th'[t].ip) = IPString(a)
            /\ Granted(w, a)
                 => \/ Deserializes(w)
                    \/ \E t \in Threads : /\ StepOf(t, "Add", w)
                                          /\ IPString(th'[t].ip) = IPString(a)]_vars

\* Add of the 16-byte form of an IPv4 address has returned, and both forms
\* of the address are permitted.
C1_Witness ==
    \E t \in Threads :
        /\ Returned(t, "Add")
        /\ Len(th[t].ip) = IPv6len /\ To4(th[t].ip) # NilIP
        /\ Permits(basic[th[t].w], th[t].ip)
        /\ Permits(basic[th[t].w], To4(th[t].ip))

\* C4: UnmarshalJSON of the bytes a MarshalJSON of a host list returned
\* succeeds, and the list it leaves permits exactly the addresses the
\* marshalled list permitted.
C4_JSONRoundTrip ==
    \A t \in Threads :
        Returned(t, "UnmarshalJSON") /\ th[t].kind = "json"
            => /\ th[t].err = "nil"
               /\ \A a \in ValidIPs :
                    Permits(basic[th[t].w], a) <=> BasicKey(a) \in th[t].snap

\* The bytes of a list of two or more entries have been read back into the
\* zero value.
C4_Witness ==
    \E t \in Threads :
        /\ Returned(t, "UnmarshalJSON") /\ th[t].kind = "json" /\ th[t].w = "tgt"
        /\ Cardinality(th[t].snap) >= 2
        /\ \E a \in ValidIPs : Permits(basic["tgt"], a)

\* The keys Add calls store: what IP.String() prints of a valid address.
AddBuilt(keys) == \A k \in keys : validIP(ParseIP(k)) /\ IPString(ParseIP(k)) = k

\* C6: LoadBasic of the bytes a DumpBasic returned of a host list that Add
\* calls built (the empty one too) returns no error, and a list with the
\* entries of the dumped one.
C6_DumpRoundTrip ==
    \A t \in Threads :
        Returned(t, "LoadBasic") /\ th[t].kind = "dump" /\ AddBuilt(th[t].snap)
            => th[t].err = "nil" /\ th[t].m = th[t].snap

\* An input of UnmarshalJSON that is no complete quote-delimited string.
NotQuoted(in) == Len(in) < 2 \/ in[1] # "\"" \/ in[Len(in)] # "\""

\* C10: UnmarshalJSON of an input that is no complete quote-delimited
\* string returns the format error in its first step, which leaves the
\* lists (locks and entries) as they were, and the process running.
C10_RejectsUnquoted ==
    [][\A t \in Threads :
          th'[t] # th[t] /\ th'[t].op \in {"UnmarshalJSON", "NetUnmarshalJSON"}
                         /\ NotQuoted(th'[t].in)
              => /\ th'[t].pc = "idle" /\ th'[t].err = "invalid allowlist"
                 /\ basic' = basic /\ basicNet' = basicNet
                 /\ panicked' = "no"]_vars

(***************************************************************************)
(* The network list called by one thread.                                  *)
(***************************************************************************)

\* 10.0.0.0/8, 10.1.0.0/16 inside it, and ::/64.
Net8 == IPNet(<<10, 0, 0, 0>>, CIDRMask(8, 32))

Net16 == IPNet(<<10, 1, 0, 0>>, CIDRMask(16, 32))

Net64 == IPNet([k \in 1..IPv6len |-> 0], CIDRMask(64, 128))

NetArgs == {Net8, Net16, Net64, NilNet}

\* The addresses Permitted is asked about: those of the host list, and
\* 8.8.8.8, which is in none of the networks.
NetIPs == HostIPs \cup {<<8, 8, 8, 8>>}

\* Inputs of BasicNet.UnmarshalJSON next to the outputs of MarshalJSON: the
\* empty input, a lone quote, abc, two networks with a space, a network
\* after an empty entry, and an entry that is no network.
NetJSONInputs ==
    { <<>>,
      <<"\"">>,
      <<"a", "b", "c">>,
      <<"\"", "1", "0", ".", "0", ".", "0", ".", "0", "/", "8", ",", " ",
        ":", ":", "/", "6", "4", "\"">>,
      <<"\"", ",", "1", "0", ".", "1", ".", "0", ".", "0", "/", "1", "6", "\"">>,
      <<"\"", ":", ":", "/", "6", "4", ",", "a", "b", "c", "\"">> }

NextNet ==
    \E t \in {1} :
        \/ BasicNetPermitted(t, Lists, NetIPs)
        \/ BasicNetAdd(t, Lists, NetArgs)
        \/ BasicNetRemove(t, Lists, NetArgs)
        \/ BasicNetMarshalJSON(t, Lists)
        \/ BasicNetUnmarshalJSON(t, Lists, NetJSONInputs)

SpecNet == Init /\ [][NextNet]_vars

(***************************************************************************)
(* Properties of the network list.                                         *)
(***************************************************************************)

\* A network stored in the slice sl contains ip.
Matched(sl, ip) == \E k \in 1..Len(sl) : ~sl[k].isNil /\ Contains(sl[k], ip)

\* No element of the slice sl is nil, as in a list Add calls built.
NoNil(sl) == \A k \in 1..Len(sl) : ~sl[k].isNil

\* C5: UnmarshalJSON of the bytes a MarshalJSON returned of a network list
\* of non-nil networks (the empty one too) succeeds, and on the list it
\* leaves Permitted completes, with the answer the marshalled list gave,
\* for every valid address.
C5_NetJSONRoundTrip ==
    \A t \in Threads :
        Returned(t, "NetUnmarshalJSON") /\ th[t].kind = "netjson" /\ NoNil(th[t].snap)
            => /\ th[t].err = "nil"
               /\ \A a \in ValidIPs :
                    /\ NetScan(basicNet[th[t].w].allowlist, 1, a) # "panic"
                    /\ NetPermits(basicNet[th[t].w], a) <=> Matched(th[t].snap, a)

\* The elements of sl whose String() is not s, in their order.
RECURSIVE Others(_, _)
Others(sl, s) ==
    IF Len(sl) = 0 THEN <<>>
    ELSE IF IPNetString(sl[1]) = s THEN Others(Tail(sl), s)
    ELSE <<sl[1]>> \o Others(Tail(sl), s)

\* C7: when Remove(n) has returned, the elements whose canonical string is
\* not that of n are in the list as they were, and no address that one of
\* them contains is denied: a network n lies in stays, and keeps the
\* addresses of n permitted.
C7_RemoveExactOnly ==
    \A t \in Threads :
        Returned(t, "NetRemove") /\ ~th[t].net.isNil
            => LET after == basicNet[th[t].w].allowlist
                   s == IPNetString(th[t].net)
               IN  /\ Others(after, s) = Others(th[t].snap, s)
                   /\ \A k \in 1..Len(th[t].snap), a \in NetIPs :
                        /\ ~th[t].snap[k].isNil
                        /\ IPNetString(th[t].snap[k]) # s
                        /\ validIP(a) /\ Contains(th[t].snap[k], a)
                        => Matched(after, a) /\ NetScan(after, 1, a) # "false"

\* Remove(10.1.0.0/16) has returned on a list that held 10.0.0.0/8 too: an
\* address of 10.1.0.0/16 is still permitted.
C7_Witness ==
    \E t \in Threads :
        /\ Returned(t, "NetRemove") /\ th[t].net = Net16
        /\ \E i, j \in 1..Len(th[t].snap) : th[t].snap[i] = Net8 /\ th[t].snap[j] = Net16
        /\ basicNet[th[t].w].allowlist = <<Net8>>
        /\ NetPermits(basicNet[th[t].w], <<10, 1, 2, 1>>)

(***************************************************************************)
(* The gate: the lookups and the handlers of the README.                   *)
(***************************************************************************)

\* net.SplitHostPort, its host and its error.
SplitHostPort(hostport) ==
    LET i == LastIndexByte(hostport, ":")
        bracket == Len(hostport) > 0 /\ hostport[1] = "["
        end == IndexByte(hostport, "]")
        host == IF bracket THEN SubSeq(hostport, 2, end) ELSE Upto(hostport, i)
        j == IF bracket THEN 1 ELSE 0
        k == IF bracket THEN end + 1 ELSE 0
        Fail(why) == [host |-> <<>>, err |-> why]
    IN  IF i < 0 THEN Fail("missing port in address")
        ELSE IF bracket /\ end < 0 THEN Fail("missing ']' in address")
        ELSE IF bracket /\ end + 1 = Len(hostport) THEN Fail("missing port in address")
        ELSE IF bracket /\ end + 1 # i
             THEN IF hostport[end + 2] = ":" THEN Fail("too many colons in address")
                  ELSE Fail("missing port in address")
        ELSE IF ~bracket /\ IndexByte(host, ":") >= 0 THEN Fail("too many colons in address")
        ELSE IF IndexByte(From(hostport, j), "[") >= 0 THEN Fail("unexpected '[' in address")
        ELSE IF IndexByte(From(hostport, k), "]") >= 0 THEN Fail("unexpected ']' in address")
        ELSE [host |-> host, err |-> "nil"]

\* A request is nil or has a RemoteAddr.
NilRequest == [isNil |-> TRUE, RemoteAddr |-> <<>>]

Request(addr) == [isNil |-> FALSE, RemoteAddr |-> addr]

\* func HTTPRequestLookup(req *http.Request) (net.IP, error)
HTTPRequestLookup(req) ==
    IF req.isNil THEN [ip |-> NilIP, err |-> "no request"]
    ELSE LET split == SplitHostPort(req.RemoteAddr)
         IN  IF split.err # "nil" THEN [ip |-> NilIP, err |-> split.err]
             ELSE [ip |-> ParseIP(split.host), err |-> "nil"]

\* A connection is nil, or its RemoteAddr() is nil or has a String().
NilConn == [isNil |-> TRUE, hasAddr |-> FALSE, addr |-> <<>>]

ConnNoAddr == [isNil |-> FALSE, hasAddr |-> FALSE, addr |-> <<>>]

Conn(addr) == [isNil |-> FALSE, hasAddr |-> TRUE, addr |-> addr]

\* func NetConnLookup(conn net.Conn) (net.IP, error)
NetConnLookupOf(conn) ==
    IF conn.isNil THEN [ip |-> NilIP, err |-> "no connection"]
    ELSE IF ~conn.hasAddr THEN [ip |-> NilIP, err |-> "no address returned"]
    ELSE LET split == SplitHostPort(conn.addr)
         IN  IF split.err # "nil" THEN [ip |-> NilIP, err |-> split.err]
             ELSE [ip |-> ParseIP(split.host), err |-> "nil"]

\* A call of NetConnLookup, with what it returned.
NetConnLookup(Conns) ==
    /\ panicked = "no"
    /\ \E conn \in Conns :
         LET r == NetConnLookupOf(conn)
         IN  served' = [NoRequest EXCEPT !.op = "NetConnLookup", !.addr = conn.addr,
                                         !.ip = r.ip, !.err = r.err]
    /\ UNCHANGED <<basic, basicNet, th, panicked, handler>>

\* The ACLs a handler is given: the lists wl, and the stubs.
ACLs == {"Basic", "BasicNet", "HostStub", "NetStub"}

\* acl.Permitted(ip) when no other call holds the list's lock: "true",
\* "false", or "panic".
ACLPermitted(acl, ip) ==
    CASE acl = "Basic" -> IF Permits(basic["wl"], ip) THEN "true" ELSE "false"
      [] acl = "BasicNet" ->
            IF ~validIP(ip) THEN "false" ELSE NetScan(basicNet["wl"].allowlist, 1, ip)
      [] OTHER -> "true"

\* Permitted returns at once, or finds the list's lock free.
ACLReady(acl, ip) ==
    CASE acl = "Basic" -> ~validIP(ip) \/ CanLock(basic["wl"])
      [] acl = "BasicNet" -> ~validIP(ip) \/ CanLock(basicNet["wl"])
      [] OTHER -> TRUE

\* What NewHandler and NewHandlerFunc return.
Construct(type, allow, deny, acl) ==
    IF ~allow THEN [NoHandler EXCEPT !.err = "allow cannot be nil"]
    ELSE IF acl = "nil" THEN [NoHandler EXCEPT !.err = "ACL cannot be nil"]
    ELSE [type |-> type, allow |-> allow, deny |-> deny, acl |-> acl, err |-> "nil"]

\* func NewHandler(allow, deny http.Handler, acl ACL) (http.Handler, error)
\* The program constructs handlers until it has got one.
NewHandler ==
    /\ panicked = "no"
    /\ handler.type = "nil"
    /\ \E allow \in BOOLEAN, deny \in BOOLEAN, acl \in ACLs \cup {"nil"} :
         handler' = Construct("Handler", allow, deny, acl)
    /\ UNCHANGED <<basic, basicNet, th, panicked, served>>

\* func NewHandlerFunc(allow, deny func(...), acl ACL) (*HandlerFunc, error)
NewHandlerFunc ==
    /\ panicked = "no"
    /\ handler.type = "nil"
    /\ \E allow \in BOOLEAN, deny \in BOOLEAN, acl \in ACLs \cup {"nil"} :
         handler' = Construct("HandlerFunc", allow, deny, acl)
    /\ UNCHANGED <<basic, basicNet, th, panicked, served>>

\* A ServeHTTP that goes on after the internal server error.
ServeCallsNoReturn(h, err, permitted) ==
    (IF err # "nil" THEN <<"InternalServerError">> ELSE <<>>)
        \o (IF permitted THEN <<"allow">> ELSE IF ~h.deny THEN <<"Unauthorized">> ELSE <<"deny">>)

\* What ServeHTTP of h calls when the lookup returned err and, without an
\* error, Permitted returned permitted.
ServeCalls(h, err, permitted) ==
    IF err # "nil" THEN <<"InternalServerError">>
    ELSE IF permitted THEN <<"allow">>
    ELSE IF ~h.deny THEN <<"Unauthorized">>
    ELSE <<"deny">>

\* ServeHTTP of the handler of the given type, on the request req.
ServeHTTP(type, Reqs) ==
    /\ panicked = "no"
    /\ \E req \in Reqs :
         LET r == HTTPRequestLookup(req)
             p == ACLPermitted(handler.acl, r.ip)
         IN  /\ r.err = "nil" => ACLReady(handler.acl, r.ip)
             /\ IF r.err = "nil" /\ p = "panic"
                THEN /\ panicked' = "nil pointer dereference"
                     /\ served' = [NoRequest EXCEPT !.op = type, !.acl = handler.acl,
                                                    !.deny = handler.deny,
                                                    !.addr = req.RemoteAddr,
                                                    !.ip = r.ip, !.tested = TRUE]
                ELSE /\ served' = [op |-> type, acl |-> handler.acl, deny |-> handler.deny,
                                   addr |-> req.RemoteAddr, ip |-> r.ip,
                                   err |-> r.err, tested |-> r.err = "nil",
                                   permitted |-> r.err = "nil" /\ p = "true",
                                   calls |-> ServeCalls(handler, r.err, p = "true")]
                     /\ UNCHANGED panicked
    /\ UNCHANGED <<basic, basicNet, th, handler>>

\* func (h *Handler) ServeHTTP(w http.ResponseWriter, req *http.Request)
HandlerServeHTTP(Reqs) == handler.type = "Handler" /\ ServeHTTP("Handler", Reqs)

\* func (h *HandlerFunc) ServeHTTP(w http.ResponseWriter, req *http.Request)
HandlerFuncServeHTTP(Reqs) ==
    handler.type = "HandlerFunc" /\ ServeHTTP("HandlerFunc", Reqs)

\* The remote addresses of the requests: 10.1.2.1:8, 8.8.8.8:8, [::1]:8,
\* the host name abc:8, 10.1.2.1 without a port, ::1:8, and the empty one.
RemoteAddrs ==
    { <<"1", "0", ".", "1", ".", "2", ".", "1", ":", "8">>,
      <<"8", ".", "8", ".", "8", ".", "8", ":", "8">>,
      <<"[", ":", ":", "1", "]", ":", "8">>,
      <<"a", "b", "c", ":", "8">>,
      <<"1", "0", ".", "1", ".", "2", ".", "1">>,
      <<":", ":", "1", ":", "8">>,
      <<>> }

Requests == {NilRequest} \cup {Request(a) : a \in RemoteAddrs}

Conns == {NilConn, ConnNoAddr} \cup {Conn(a) : a \in RemoteAddrs}

\* The address and the network the lists of the gate are given.
GateIPs == {<<10, 1, 2, 1>>}

GateNets == {Net8}

NextGate ==
    \/ NewHandler
    \/ NewHandlerFunc
    \/ HandlerServeHTTP(Requests)
    \/ HandlerFuncServeHTTP(Requests)
    \/ NetConnLookup(Conns)
    \/ \E t \in {1} :
        \/ BasicAdd(t, {"wl"}, GateIPs)
        \/ BasicNetAdd(t, {"wl"}, GateNets)

SpecGate == Init /\ [][NextGate]_vars

(***************************************************************************)
(* Properties of the gate.                                                 *)
(***************************************************************************)

\* A ServeHTTP has handled a request.
Served == served.op \in {"Handler", "HandlerFunc"}

\* The step at hand is a ServeHTTP that returns.
Serves == served' # served /\ served'.op \in {"Handler", "HandlerFunc"} /\ panicked' = "no"

\* What C8 says of the request a step has served, Permitted being asked of
\* the list as the step found it.
DispatchedAsStated ==
    LET p == ACLPermitted(handler.acl, served'.ip)
    IN  /\ Len(served'.calls) = 1
        /\ served'.calls[1] =
              IF served'.err # "nil" THEN "InternalServerError"
              ELSE IF p = "true" THEN "allow"
              ELSE IF handler.deny THEN "deny"
              ELSE "Unauthorized"
        /\ served'.err # "nil" <=> ~served'.tested
        /\ served'.tested /\ p = "false"
              => \A k \in 1..Len(served'.calls) : served'.calls[k] # "allow"

\* C8: a request a handler has handled had exactly one outcome: the
\* internal server error when the lookup failed; else the allow delegate
\* when Permitted returned true; else the deny delegate when there is one;
\* else the unauthorized response.  A request Permitted returned false for
\* never has the allow delegate called.
C8_GateDispatch == [][Serves => DispatchedAsStated]_vars

\* A handler without a deny delegate has answered unauthorized to a request
\* from 8.8.8.8, which its host list does not hold.
C8_Witness ==
    /\ Served /\ served.acl = "Basic" /\ ~served.deny
    /\ served.ip = IPv4(8, 8, 8, 8) /\ served.calls = <<"Unauthorized">>

\* C9: a lookup that returns no error returns a usable address, and a
\* request whose remote address is no IP address gets the internal server
\* error without Permitted being called.
C9_LookupFailsOnUnparsable ==
    /\ served.op # "none" /\ served.err = "nil" => validIP(served.ip)
    /\ Served /\ ~validIP(served.ip)
          => served.calls = <<"InternalServerError">> /\ ~served.tested

(***************************************************************************)
(* The lists wl called by several threads at once.                         *)
(***************************************************************************)

\* The addresses and networks the concurrent callers add.
AddIPs == {<<10, 1, 2, h>> : h \in 1..MaxHost}

AddNets == {Net8, Net16}

\* Concurrent Add and Permitted calls on the two lists.
NextAdd ==
    \E t \in Threads :
        \/ BasicAdd(t, {"wl"}, AddIPs)
        \/ BasicPermitted(t, {"wl"}, AddIPs)
        \/ BasicNetAdd(t, {"wl"}, AddNets)
        \/ BasicNetPermitted(t, {"wl"}, AddIPs)

SpecAdd == Init /\ [][NextAdd]_vars

\* Concurrent calls of the operations of the two lists that do not replace
\* the collection.
NextShared ==
    \E t \in Threads :
        \/ BasicAdd(t, {"wl"}, {<<10, 1, 2, 1>>})
        \/ BasicRemove(t, {"wl"}, {<<10, 1, 2, 1>>})
        \/ BasicPermitted(t, {"wl"}, {<<10, 1, 2, 1>>})
        \/ BasicMarshalJSON(t, {"wl"})
        \/ BasicNetAdd(t, {"wl"}, {Net8})
        \/ BasicNetRemove(t, {"wl"}, {Net8})
        \/ BasicNetPermitted(t, {"wl"}, {<<10, 1, 2, 1>>})
        \/ BasicNetMarshalJSON(t, {"wl"})

SpecShared == Init /\ [][NextShared]_vars

(***************************************************************************)
(* Properties of concurrent calls.                                         *)
(***************************************************************************)

\* The labels whose step reads or writes the map of a host list, and those
\* whose step reads or writes the slice of a network list.
BasicAccess == {"L67", "L80", "L80w", "L91", "L91w", "L108", "L130", "L134", "L158"}

BasicNetAccess ==
    {"L257", "L276", "L276w", "L288", "L299", "L299w", "L312", "L314", "L336", "L339"}

HostOps == {"Permitted", "Add", "Remove", "MarshalJSON", "UnmarshalJSON", "DumpBasic"}

\* C2: a thread about to read or write the collection of a list holds the
\* lock of that list.
C2_AccessUnderLock ==
    \A t \in Threads :
        /\ th[t].op \in HostOps /\ th[t].pc \in BasicAccess => basic[th[t].w].lock = t
        /\ th[t].op \notin HostOps /\ th[t].pc \in BasicNetAccess
              => basicNet[th[t].w].lock = t

\* The step at hand is the return of a call of op by thread t.
Returns(t, op) == th[t].pc # "idle" /\ th'[t].pc = "idle" /\ th'[t].op = op /\ panicked' = "no"

\* C3: no step of concurrent Adds and Permitteds takes an address or a
\* network out of a list; an Add that returns leaves its address permitted,
\* or its network in the list; and a Permitted answers what the list holds.
\* So every address is permitted once its Add has returned.
C3_NoLostUpdate ==
    [][ /\ \A a \in AddIPs : Permits(basic["wl"], a) => Permits(basic'["wl"], a)
        /\ \A k \in 1..Len(basicNet["wl"].allowlist) :
              /\ k <= Len(basicNet'["wl"].allowlist)
              /\ basicNet'["wl"].allowlist[k] = basicNet["wl"].allowlist[k]
        /\ \A t \in Threads :
              /\ Returns(t, "Add") => Permits(basic'["wl"], th'[t].ip)
              /\ Returns(t, "NetAdd")
                    => \E k \in 1..Len(basicNet'["wl"].allowlist) :
                          basicNet'["wl"].allowlist[k] = th'[t].net
              /\ Returns(t, "Permitted") => th'[t].ret = Permits(basic'["wl"], th'[t].ip)
              /\ Returns(t, "NetPermitted")
                    => th'[t].ret = NetPermits(basicNet'["wl"], th'[t].ip)
      ]_vars

\* Every thread has returned from an Add, each of another address, and
\* every one of the addresses is permitted.
C3_Witness ==
    /\ \A t \in Threads : Returned(t, "Add") /\ Permits(basic["wl"], th[t].ip)
    /\ \A t, u \in Threads : t # u => th[t].ip # th[u].ip

(***************************************************************************)
(* Properties of the lists across their operations.                        *)
(***************************************************************************)

\* The calls C11 says never crash.
QueryOps == {"Add", "Remove", "Permitted", "NetAdd", "NetRemove", "NetPermitted"}

\* C11: no Add, Remove or Permitted call on a list panics, whatever
\* operations, failed deserializations among them, the list has been
\* through.
C11_NoCrashAfterFailure ==
    \A t \in Threads : th[t].op \in QueryOps => th[t].err # "panic"

(***************************************************************************)
(* The lists wl under Add, Remove and Permitted calls alone.               *)
(***************************************************************************)

\* 10.0.0.0/8 with its address in 16 bytes: another value than Net8, with
\* the same String().
Net8Mapped == IPNet(IPv4(10, 0, 0, 0), CIDRMask(8, 32))

\* The networks the calls are given: 10.0.0.0/8 in its two forms,
\* 10.1.0.0/16, ::/64 and nil.
CallNets == {Net8, Net8Mapped, Net16, Net64, NilNet}

NextCalls ==
    \E t \in {1} :
        \/ BasicAdd(t, {"wl"}, HostIPs)
        \/ BasicRemove(t, {"wl"}, HostIPs)
        \/ BasicPermitted(t, {"wl"}, HostIPs)
        \/ BasicNetAdd(t, {"wl"}, CallNets)
        \/ BasicNetRemove(t, {"wl"}, CallNets)
        \/ BasicNetPermitted(t, {"wl"}, NetIPs)

SpecCalls == Init /\ [][NextCalls]_vars

\* An address of neither 4 nor 16 bytes.
Malformed(ip) == Len(ip) # IPv4len /\ Len(ip) # IPv6len

\* C12: a step of a host-list Add or Remove of an address of neither 4 nor
\* 16 bytes leaves the entries of the list as they were, and a Permitted of
\* such an address, on the host and on the network list, returns false.
C12_MalformedIgnored ==
    [][\A t \in Threads :
          th'[t] # th[t] /\ Malformed(th'[t].ip)
              => /\ th'[t].op \in {"Add", "Remove"} => basic' = basic
                 /\ th'[t].op \in {"Permitted", "NetPermitted"} /\ th'[t].pc = "idle"
                       => th'[t].ret = FALSE /\ panicked' = "no"]_vars

\* Add of a 3-byte address has returned on a host list that holds an
\* entry, and not that of the 3-byte address.
C12_Witness ==
    \E t \in Threads :
        /\ Returned(t, "Add") /\ Len(th[t].ip) = 3
        /\ basic[th[t].w].allowlist # {}
        /\ IPString(th[t].ip) \notin basic[th[t].w].allowlist

(***************************************************************************)
(* The stubs HostStub and NetStub.                                         *)
(***************************************************************************)

\* A HostStub that checks the length of the address.
HostStubPermitsValid(ip) == validIP(ip)

\* What HostStub.Permitted returns, after its log line.
HostStubPermits(ip) == TRUE

\* What NetStub.Permitted returns, after its log line.
NetStubPermits(ip) == TRUE

\* A call of a method of a stub, which has no state: it logs and returns.
StubCall(t, op, ip, n, ret) ==
    /\ th' = [th EXCEPT ![t] = [Enter(@, op, "wl") EXCEPT !.ip = ip, !.net = n, !.ret = ret]]
    /\ UNCHANGED <<basic, basicNet, panicked, handler, served>>

\* func (wl HostStub) Permitted(ip net.IP) bool
HostStubPermitted(t, IPs) ==
    /\ PC(t) = "idle"
    /\ \E ip \in IPs : StubCall(t, "HostStub.Permitted", ip, NilNet, HostStubPermits(ip))

\* func (wl HostStub) Add(ip net.IP)
HostStubAdd(t, IPs) ==
    /\ PC(t) = "idle"
    /\ \E ip \in IPs : StubCall(t, "HostStub.Add", ip, NilNet, FALSE)

\* func (wl HostStub) Remove(ip net.IP)
HostStubRemove(t, IPs) ==
    /\ PC(t) = "idle"
    /\ \E ip \in IPs : StubCall(t, "HostStub.Remove", ip, NilNet, FALSE)

\* func (wl NetStub) Permitted(ip net.IP) bool
NetStubPermitted(t, IPs) ==
    /\ PC(t) = "idle"
    /\ \E ip \in IPs : StubCall(t, "NetStub.Permitted", ip, NilNet, NetStubPermits(ip))

\* func (wl NetStub) Add(ip *net.IPNet)
NetStubAdd(t, Nets) ==
    /\ PC(t) = "idle"
    /\ \E n \in Nets : StubCall(t, "NetStub.Add", NilIP, n, FALSE)

\* func (wl NetStub) Remove(ip *net.IPNet)
NetStubRemove(t, Nets) ==
    /\ PC(t) = "idle"
    /\ \E n \in Nets : StubCall(t, "NetStub.Remove", NilIP, n, FALSE)

NextStub ==
    \E t \in Threads :
        \/ HostStubPermitted(t, NetIPs)
        \/ HostStubAdd(t, NetIPs)
        \/ HostStubRemove(t, NetIPs)
        \/ NetStubPermitted(t, NetIPs)
        \/ NetStubAdd(t, CallNets)
        \/ NetStubRemove(t, CallNets)

SpecStub == Init /\ [][NextStub]_vars

\* C13: every Permitted of a stub returns true, for every address and
\* whatever calls of the stubs came before, and no call of a stub changes
\* a thing a later call reads.
C13_StubsPermitAll ==
    [][\A t \in Threads :
          th'[t] # th[t]
              => /\ th'[t].op \in {"HostStub.Permitted", "NetStub.Permitted"}
                       => th'[t].ret = TRUE
                 /\ <<basic, basicNet, handler, served, panicked>>'
                       = <<basic, basicNet, handler, served, panicked>>
                 /\ \A u \in Threads \ {t} : th'[u] = th[u]]_vars

\* HostStub.Permitted of the nil address has returned true while the other
\* thread has returned from a HostStub.Remove.
C13_Witness ==
    \E t, u \in Threads :
        /\ Returned(t, "HostStub.Permitted") /\ th[t].ip = NilIP /\ th[t].ret
        /\ Returned(u, "HostStub.Remove")

(***************************************************************************)
(* The two forms of an IPv4 address on the host list.                      *)
(***************************************************************************)

\* The other form of the IPv4 address ip: the 16-byte IPv4-mapped form of
\* a 4-byte address, the 4-byte form of a 16-byte IPv4-mapped address.
OtherForm(ip) == IF Len(ip) = IPv4len THEN IPv4(ip[1], ip[2], ip[3], ip[4]) ELSE To4(ip)

\* ip is an IPv4 address, in either form.
IsIPv4(ip) == validIP(ip) /\ To4(ip) # NilIP

\* C14 as stated: no step of an Add of one form of an IPv4 address makes
\* Permitted of its other form true.
C14_AsStated ==
    [][\A t \in Threads :
          StepOf(t, "Add", th'[t].w) /\ IsIPv4(th'[t].ip)
              => ~Granted(th'[t].w, OtherForm(th'[t].ip))]_vars

\* C14 (amended): the two forms of an IPv4 address are one entry. When Add
\* of either form has returned both forms are permitted, when Remove of
\* either form has returned neither is; and an Add makes Permitted true
\* only of addresses whose canonical string is that of its argument.
C14_FormsShareEntry ==
    [][/\ \A t \in Threads :
            /\ Returns(t, "Add") /\ IsIPv4(th'[t].ip)
                  => /\ Permits(basic'[th'[t].w], th'[t].ip)
                     /\ Permits(basic'[th'[t].w], OtherForm(th'[t].ip))
            /\ Returns(t, "Remove") /\ IsIPv4(th'[t].ip)
                  => /\ ~Permits(basic'[th'[t].w], th'[t].ip)
                     /\ ~Permits(basic'[th'[t].w], OtherForm(th'[t].ip))
       /\ \A w \in Lists, a \in ValidIPs :
            Granted(w, a)
               => \E t \in Threads : /\ StepOf(t, "Add", w)
                                     /\ IPString(th'[t].ip) = IPString(a)]_vars

\* Add of the 4-byte form of an IPv4 address has returned, the list holds
\* one entry, and the 16-byte form of the address is permitted.
C14_Witness ==
    \E t \in Threads :
        /\ Returned(t, "Add") /\ Len(th[t].ip) = IPv4len
        /\ Cardinality(basic[th[t].w].allowlist) = 1
        /\ Len(OtherForm(th[t].ip)) = IPv6len
        /\ Permits(basic[th[t].w], OtherForm(th[t].ip))

(***************************************************************************)
(* Remove on the host list, repeated.                                      *)
(***************************************************************************)

\* C15: when a Remove(a) returns the entry of a is not in the list, and no
\* step of a Remove of an address whose entry is not in the list, or of a
\* malformed address, changes the entries of the list or panics: a second
\* Remove(a) leaves the list as the first one left it.
C15_RemoveIdempotent ==
    [][\A t \in Threads :
          th'[t] # th[t] /\ th'[t].op = "Remove"
              => LET w == th'[t].w
                     key == BasicKey(th'[t].ip)
                 IN  /\ panicked' = "no"
                     /\ th'[t].err = "nil"
                     /\ th'[t].pc = "idle" /\ validIP(th'[t].ip)
                           => key \notin basic'[w].allowlist
                     /\ ~validIP(th'[t].ip) \/ key \notin basic[w].allowlist
                           => /\ basic'[w].allowlist = basic[w].allowlist
                              /\ basic'[w].isNil = basic[w].isNil]_vars

\* A Remove of an address whose entry the list does not hold has done its
\* delete, on a list that holds other entries, and the list is as it was.
C15_Witness ==
    \E t \in Threads :
        /\ th[t].op = "Remove" /\ th[t].pc = "L92"
        /\ th[t].m # {} /\ BasicKey(th[t].ip) \notin th[t].m
        /\ basic[th[t].w].allowlist = th[t].m

(***************************************************************************)
(* The dump form.                                                          *)
(***************************************************************************)

\* The lines of the dump out.
DumpLines(out) == IF out = <<>> THEN <<>> ELSE Split(out, "\n")

\* C16: the bytes a DumpBasic has returned are the entries of the list, each
\* once, in ascending byte order, joined by newlines; so they are the same
\* for every list with these entries, however it came by them.
C16_DumpSorted ==
    \A t \in Threads :
        Returned(t, "DumpBasic")
            => LET lines == DumpLines(th[t].out)
                   entries == basic[th[t].w].allowlist
               IN  /\ {lines[k] : k \in 1..Len(lines)} = entries
                   /\ Len(lines) = Cardinality(entries)
                   /\ \A k \in 1..(Len(lines) - 1) : StrLess(lines[k], lines[k + 1])
                   /\ th[t].out = Join(lines, <<"\n">>)

\* DumpBasic has returned the dump of a list of three entries.
C16_Witness ==
    \E t \in Threads :
        /\ Returned(t, "DumpBasic")
        /\ Cardinality(basic[th[t].w].allowlist) = 3
        /\ Len(DumpLines(th[t].out)) = 3

(***************************************************************************)
(* The entries of the host list.                                           *)
(***************************************************************************)

\* C17: every entry of a host list is the canonical string of a valid
\* address, and Permitted of the address it parses to is true.
C17_EntriesCanonical ==
    \A w \in Lists :
        \A e \in basic[w].allowlist :
            /\ validIP(ParseIP(e))
            /\ IPString(ParseIP(e)) = e
            /\ Permits(basic[w], ParseIP(e))

(***************************************************************************)
(* Remove and Permitted on the network list.                               *)
(***************************************************************************)

\* The indices of the elements of sl whose String() is s.
Matching(sl, s) == {k \in 1..Len(sl) : IPNetString(sl[k]) = s}

C19_PermittedIffContained ==
    \A t \in Threads :
        Returned(t, "NetPermitted") /\ validIP(th[t].ip)
            => (th[t].ret <=> Matched(basicNet[th[t].w].allowlist, th[t].ip))

\* Permitted(10.1.2.1) has returned true on a list whose first network,
\* ::/64, does not contain the address and whose second one does.
C19_Witness ==
    \E t \in Threads :
        /\ Returned(t, "NetPermitted") /\ th[t].ip = <<10, 1, 2, 1>> /\ th[t].ret
        /\ basicNet[th[t].w].allowlist = <<Net64, Net8>>

(***************************************************************************)
(* Deserializations beside Permitted calls.                                *)
(***************************************************************************)

\* The inputs of the loads: "10.1.2.1, ::1", "10.1.2.2" and "::1,abc" for
\* the host list, "10.0.0.0/8, ::/64" and ",10.1.0.0/16" for the network
\* list.
LoadHostInputs ==
    { <<"\"", "1", "0", ".", "1", ".", "2", ".", "1", ",", " ", ":", ":", "1", "\"">>,
      <<"\"", "1", "0", ".", "1", ".", "2", ".", "2", "\"">>,
      <<"\"", ":", ":", "1", ",", "a", "b", "c", "\"">> }

LoadNetInputs ==
    { <<"\"", "1", "0", ".", "0", ".", "0", ".", "0", "/", "8", ",", " ",
        ":", ":", "/", "6", "4", "\"">>,
      <<"\"", ",", "1", "0", ".", "1", ".", "0", ".", "0", "/", "1", "6", "\"">> }

NextLoad ==
    \E t \in Threads :
        \/ BasicUnmarshalJSON(t, {"wl"}, LoadHostInputs)
        \/ BasicPermitted(t, {"wl"}, AddIPs)
        \/ BasicNetUnmarshalJSON(t, {"wl"}, LoadNetInputs)
        \/ BasicNetPermitted(t, {"wl"}, AddIPs)

SpecLoad == Init /\ [][NextLoad]_vars

\* The entries the compact form in names: its trimmed tokens but the empty
\* ones.
TokenSet(in) ==
    LET toks == UnmarshalTokens(in)
    IN  {TrimSpace(toks[k]) : k \in 1..Len(toks)} \ {<<>>}

\* The elements of sl that are not nil, in their order.
RECURSIVE NonNil(_)
NonNil(sl) ==
    IF Len(sl) = 0 THEN <<>>
    ELSE IF sl[1].isNil THEN NonNil(Tail(sl))
    ELSE <<sl[1]>> \o NonNil(Tail(sl))

\* The networks the tokens toks parse to, but for the empty tokens.
RECURSIVE ParsedNets(_)
ParsedNets(toks) ==
    IF Len(toks) = 0 THEN <<>>
    ELSE IF TrimSpace(toks[1]) = <<>> THEN ParsedNets(Tail(toks))
    ELSE <<ParseCIDR(TrimSpace(toks[1])).net>> \o ParsedNets(Tail(toks))

\* A load of the host list w has dropped the old map and is filling the
\* new one; likewise of the network list w.
Loading(w) ==
    \E u \in Threads : th[u].op = "UnmarshalJSON" /\ th[u].w = w /\ th[u].pc = "L134"

NetLoading(w) ==
    \E u \in Threads : th[u].op = "NetUnmarshalJSON" /\ th[u].w = w /\ th[u].pc = "L339"

\* C20: when an UnmarshalJSON returns nil the entries of the list are those
\* its input names and no other, and no Permitted reads the collection of a
\* list while a load is filling it.
C20_LoadReplacesAtomically ==
    [][\A t \in Threads :
          /\ Returns(t, "UnmarshalJSON") /\ th'[t].err = "nil"
                => basic'[th'[t].w].allowlist = TokenSet(th'[t].in)
          /\ Returns(t, "NetUnmarshalJSON") /\ th'[t].err = "nil"
                => NonNil(basicNet'[th'[t].w].allowlist)
                      = ParsedNets(UnmarshalTokens(th'[t].in))
          /\ th[t].op = "Permitted" /\ th[t].pc = "L67" /\ th'[t].pc = "L68"
                => ~Loading(th[t].w)
          /\ th[t].op = "NetPermitted" /\ th[t].pc = "L257" /\ th'[t] # th[t]
                => ~NetLoading(th[t].w)]_vars

\* A load of "10.1.2.2" into a host list that held other entries has filled
\* the new map, which holds 10.1.2.2 alone, while a Permitted waits for the
\* lock.
C20_Witness ==
    \E t, u \in Threads :
        /\ th[t].op = "UnmarshalJSON" /\ th[t].pc = "L149" /\ th[t].err = "nil"
        /\ th[t].m # {} /\ th[t].m \cap basic[th[t].w].allowlist = {}
        /\ Cardinality(basic[th[t].w].allowlist) = 1
        /\ th[u].op = "Permitted" /\ th[u].pc = "L66" /\ th[u].w = th[t].w

(***************************************************************************)
(* Every locking operation of the two lists, called by concurrent threads. *)
(***************************************************************************)

\* A step of a thread: a call of a method of the list wl that takes the
\* lock, or the next statement of the call the thread is in. The loads
\* read "10.1.2.1" and "::1,abc" into the host list, "10.0.0.0/8" and
\* ",10.1.0.0/16" into the network list.
NextCallers ==
    \E t \in Threads :
        \/ BasicAdd(t, {"wl"}, {<<10, 1, 2, 1>>})
        \/ BasicRemove(t, {"wl"}, {<<10, 1, 2, 1>>})
        \/ BasicPermitted(t, {"wl"}, {<<10, 1, 2, 1>>})
        \/ BasicMarshalJSON(t, {"wl"})
        \/ BasicUnmarshalJSON(t, {"wl"},
              { <<"\"", "1", "0", ".", "1", ".", "2", ".", "1", "\"">>,
                <<"\"", ":", ":", "1", ",", "a", "b", "c", "\"">> })
        \/ BasicNetAdd(t, {"wl"}, {Net8})
        \/ BasicNetRemove(t, {"wl"}, {Net8})
        \/ BasicNetPermitted(t, {"wl"}, {<<10, 1, 2, 1>>})
        \/ BasicNetUnmarshalJSON(t, {"wl"},
              { <<"\"", "1", "0", ".", "0", ".", "0", ".", "0", "/", "8", "\"">>,
                <<"\"", ",", "1", "0", ".", "1", ".", "0", ".", "0", "/", "1", "6", "\"">> })

SpecCallers == Init /\ [][NextCallers]_vars

\* C21: every call of a list method runs to its return, whatever the other
\* callers do: no call has ended in a run-time panic, which ends it (and
\* the process) without a return, and no call has left with the lock of
\* its list, on which the next caller would wait for ever: the lock of a
\* list is free or held by a thread that is between the Lock and the
\* Unlock of a call on that list.
C21_EveryCallReturns ==
    LET BasicHolds ==
            {"L67", "L68", "L80", "L80w", "L81", "L91", "L91w", "L92", "L108", "L113",
             "L130", "L134", "L149"}
        BasicNetHolds ==
            {"L257", "L263", "L276", "L276w", "L277", "L288", "L299", "L299w", "L300",
             "L336", "L339", "L352"}
        Holds(f, w, pcs) == f.w = w /\ f.pc \in pcs
    IN  /\ panicked = "no"
        /\ \A w \in Lists :
             /\ basic[w].lock \in Threads
                   => /\ th[basic[w].lock].op \in HostOps
                      /\ Holds(th[basic[w].lock], w, BasicHolds)
             /\ basicNet[w].lock \in Threads
                   => /\ th[basicNet[w].lock].op \notin HostOps
                      /\ Holds(th[basicNet[w].lock], w, BasicNetHolds)

====
